---- MODULE Spec2Model ----
(***************************************************************************)
(* Model of the chat view's streaming session controller (CustomChat:      *)
(* sendMessage / stopGeneration) and of the token manager it calls         *)
(* (estimateTokens, shouldOptimizeConversation, optimizeConversation,      *)
(* truncateConversation).                                                  *)
(*                                                                         *)
(* A text is a sequence of symbols.  A symbol is one character ("a", "*",  *)
(* "\n", a digit) or a named run of characters without whitespace runs,    *)
(* newlines or markdown characters (a pasted block, a literal sentence of  *)
(* the program); SymLen gives the number of characters it stands for.      *)
(*                                                                         *)
(* React state is modelled twice: st is the state after every update       *)
(* enqueued so far, view is the state of the last committed render, which  *)
(* is what the closures of the event handlers read.  Updates made by a     *)
(* discrete event handler are flushed when the handler returns; updates    *)
(* made by an asynchronous continuation wait for the Render step.          *)
(*                                                                         *)
(* Several state machines share the module.  Spec and LiveSpec are the     *)
(* chat view's sessions; LoadedSpec is the same view mounted with a loaded *)
(* conversation and AppSpec the view under the application's navigation.   *)
(* TokenSpec is a caller of the token manager: tm holds a history and a    *)
(* model, and each action applies one exported function to them;           *)
(* EstimateSpec types a text and estimates it.  ListSpec is the windowed   *)
(* message list (VirtualMessageList): vl holds its props, scrollTop, the   *)
(* height cache and the memoized window.  DebounceSpec is the debounced    *)
(* token calculation of the chat view (db) and SaveSpec the saving of the  *)
(* conversations of one preset (sv).                                       *)
(***************************************************************************)
EXTENDS Integers, Sequences, FiniteSets, TLC

VARIABLES st, view, sess, nsess, pendingWindow, apiKey, noopStop, tm, vl, db, app, sv

\* the chat view's state, a caller of the token manager, the message list,
\* the debounced token calculation, the application's navigation, the saved
\* conversations
chatVars == <<st, view, sess, nsess, pendingWindow, apiKey, noopStop>>
vars == <<chatVars, tm, vl, db, app, sv>>

----------------------------------------------------------------------------
(* Bounds *)

MaxSessions == 2
MaxFragments == 2
BigBlockTokens == 700000
MaxMixed == 3
LongPromptTokens == 80000
MaxLen == 9
MaxScrolls == 1
MaxSwitches == 1

----------------------------------------------------------------------------
(* Texts *)

NULL == 0

SYSTEM_DEFAULT == "You are a helpful AI assistant."
NOTICE_BODY == "Conversation optimized to manage token usage. Some older messages have been summarized."
SUMMARY_PRE == "Conversation summary: This conversation previously covered "
SUMMARY_POST == " messages. Key topics and context have been preserved."
ERR_GENERIC == "Something went wrong, try again"
ERR_NO_KEY == "Invalid OpenAI API key. Please configure your API key in the settings."
ERR_401 == "Invalid OpenAI API key. Please check your API key and try again."
ERR_QUOTA == "OpenAI API quota exceeded. Please check your OpenAI account billing."
ERR_RATE == "Rate limit exceeded. Please wait a moment and try again."
ERR_CONTEXT == "Message too long for this model. The conversation has been optimized to fit within token limits."
BIG == "B"
FIT == "F"
EDGE == "E"
LONG_PROMPT == "L"
BACKTICK == "backtick"

\* FIT is a pasted block that, alone in a history under the default system
\* prompt (8 tokens), brings truncateConversation's running total to the
\* target of gpt-4.1 exactly; EDGE one that brings the cost of a one-message
\* history to exactly 85% of the limit of gpt-4.1
FitTokens == (800000 * 70) \div 100 - (8 + 10 + 1000) - 6
EdgeTokens == (800000 * 85) \div 100 - (8 + 6 + 10 + 1000) - 6

SymLen(sym) ==
    CASE sym = BIG -> 4 * BigBlockTokens
      [] sym = FIT -> 4 * FitTokens
      [] sym = EDGE -> 4 * EdgeTokens
      [] sym = LONG_PROMPT -> 4 * LongPromptTokens
      [] sym = SYSTEM_DEFAULT -> 31
      [] sym = NOTICE_BODY -> 87
      [] sym = SUMMARY_PRE -> 59
      [] sym = SUMMARY_POST -> 54
      [] sym = ERR_GENERIC -> 31
      [] sym = ERR_NO_KEY -> 70
      [] sym = ERR_401 -> 64
      [] sym = ERR_QUOTA -> 68
      [] sym = ERR_RATE -> 56
      [] sym = ERR_CONTEXT -> 96
      [] OTHER -> 1

IsWs(sym) == sym \in {" ", "\n"}

CeilDiv(a, b) == (a + b - 1) \div b

DigitSym(d) == <<"0", "1", "2", "3", "4", "5", "6", "7", "8", "9">>[d + 1]

RECURSIVE Digits(_)
Digits(n) == IF n < 10 THEN <<DigitSym(n)>>
             ELSE Digits(n \div 10) \o <<DigitSym(n % 10)>>

RECURSIVE TrimLeft(_)
TrimLeft(t) == IF t # <<>> /\ IsWs(Head(t)) THEN TrimLeft(Tail(t)) ELSE t

RECURSIVE TrimRight(_)
TrimRight(t) == IF t # <<>> /\ IsWs(t[Len(t)])
                THEN TrimRight(SubSeq(t, 1, Len(t) - 1)) ELSE t

Trim(t) == TrimRight(TrimLeft(t))

\* length of t once every whitespace run is replaced by one space
RECURSIVE NormalizedLengthFrom(_, _)
NormalizedLengthFrom(t, i) ==
    IF i > Len(t) THEN 0
    ELSE (IF IsWs(t[i])
          THEN (IF i > 1 /\ IsWs(t[i - 1]) THEN 0 ELSE 1)
          ELSE SymLen(t[i]))
         + NormalizedLengthFrom(t, i + 1)

NormalizedLength(t) == NormalizedLengthFrom(Trim(t), 1)

\* length of the run of "#" starting at i, at most 6 
RECURSIVE HashRun(_, _, _)
HashRun(t, i, n) ==
    IF n < 6 /\ i + n <= Len(t) /\ t[i + n] = "#" THEN HashRun(t, i, n + 1) ELSE n

\* number of matches, from position i, of the markdown pattern: a triple
\* backtick, a backtick, a double asterisk, an asterisk, a run of 1 to 6
\* hashes, or one bracket or parenthesis (alternatives tried in this order)
RECURSIVE MarkdownMatches(_, _)
MarkdownMatches(t, i) ==
    IF i > Len(t) THEN 0
    ELSE IF t[i] = BACKTICK /\ i + 2 <= Len(t) /\ t[i + 1] = BACKTICK /\ t[i + 2] = BACKTICK
         THEN 1 + MarkdownMatches(t, i + 3)
    ELSE IF t[i] = BACKTICK THEN 1 + MarkdownMatches(t, i + 1)
    ELSE IF t[i] = "*" /\ i + 1 <= Len(t) /\ t[i + 1] = "*"
         THEN 1 + MarkdownMatches(t, i + 2)
    ELSE IF t[i] = "*" THEN 1 + MarkdownMatches(t, i + 1)
    ELSE IF t[i] = "#" THEN 1 + MarkdownMatches(t, i + HashRun(t, i, 0))
    ELSE IF t[i] \in {"[", "]", "(", ")"} THEN 1 + MarkdownMatches(t, i + 1)
    ELSE MarkdownMatches(t, i + 1)

NewlineCount(t) == Cardinality({i \in 1..Len(t) : t[i] = "\n"})

\* an estimate that rounds the sum of the penalties up once
estimateTokensOneCeil(text) ==
    LET baseTokens == CeilDiv(NormalizedLength(text), 4)
        markdownPenalty == MarkdownMatches(text, 1)
        newlinePenalty == NewlineCount(text)
    IN  baseTokens + CeilDiv(5 * markdownPenalty + 2 * newlinePenalty, 10)

estimateTokens(text) ==
    LET baseTokens == CeilDiv(NormalizedLength(text), 4)
        markdownPenalty == MarkdownMatches(text, 1)
        newlinePenalty == NewlineCount(text)
    IN  baseTokens + CeilDiv(markdownPenalty, 2) + CeilDiv(newlinePenalty, 5)

----------------------------------------------------------------------------
(* Messages *)

User(t) == [sender |-> "user", message |-> t]
Bot(t) == [sender |-> "bot", message |-> t]

Last(s, n) == IF Len(s) > n THEN SubSeq(s, Len(s) - n + 1, Len(s)) ELSE s
DropLast(s) == IF s = <<>> THEN <<>> ELSE SubSeq(s, 1, Len(s) - 1)

----------------------------------------------------------------------------
(* Token manager *)

MODEL_LIMITS ==
    [m \in {"gpt-4.1", "gpt-4.1-mini", "gpt-4.1-nano", "gpt-4o", "gpt-4o-mini"} |->
        IF m \in {"gpt-4o", "gpt-4o-mini"} THEN 102400 ELSE 800000]

LimitOf(model) ==
    IF model \in DOMAIN MODEL_LIMITS THEN MODEL_LIMITS[model] ELSE MODEL_LIMITS["gpt-4.1"]

\* the sum the loop accumulates over messages from..to, by halves
RECURSIVE SumTokensBetween(_, _, _)
SumTokensBetween(messages, from, to) ==
    IF from > to THEN 0
    ELSE IF from = to THEN estimateTokens(messages[from].message) + 6
    ELSE LET mid == (from + to) \div 2
         IN  SumTokensBetween(messages, from, mid) + SumTokensBetween(messages, mid + 1, to)

SumMessageTokens(messages, i) == SumTokensBetween(messages, i, Len(messages))

calculateMessageTokens(messages) == SumMessageTokens(messages, 1) + 10

\* a total without the reserve for the response
calculateConversationTokensNoReserve(messages, systemPrompt, additionalInput) ==
    (estimateTokens(systemPrompt) + 6)
    + calculateMessageTokens(messages)
    + (IF additionalInput # <<>> THEN estimateTokens(additionalInput) + 6 ELSE 0)

\* additionalInput = <<>> stands for an absent or empty draft (both falsy)
calculateConversationTokens(messages, systemPrompt, additionalInput) ==
    (estimateTokens(systemPrompt) + 6)
    + calculateMessageTokens(messages)
    + (IF additionalInput # <<>> THEN estimateTokens(additionalInput) + 6 ELSE 0)
    + 1000

\* thresholds compared with > instead of >=
getTokenUsageStrict(estimatedTokens, model) ==
    LET limit == LimitOf(model)
    IN  [estimated |-> estimatedTokens,
         limit |-> limit,
         level |-> IF 10 * estimatedTokens > 9 * limit THEN "danger"
                   ELSE IF 10 * estimatedTokens > 8 * limit THEN "warning"
                   ELSE IF 10 * estimatedTokens > 6 * limit THEN "info"
                   ELSE "safe",
         remaining |-> IF limit - estimatedTokens > 0 THEN limit - estimatedTokens ELSE 0]

\* percentage = estimated / limit is kept as the pair (estimated, limit); the
\* comparisons with 0.9, 0.8, 0.6 are made on integers
getTokenUsage(estimatedTokens, model) ==
    LET limit == LimitOf(model)
    IN  [estimated |-> estimatedTokens,
         limit |-> limit,
         level |-> IF 10 * estimatedTokens >= 9 * limit THEN "danger"
                   ELSE IF 10 * estimatedTokens >= 8 * limit THEN "warning"
                   ELSE IF 10 * estimatedTokens >= 6 * limit THEN "info"
                   ELSE "safe",
         remaining |-> IF limit - estimatedTokens > 0 THEN limit - estimatedTokens ELSE 0]

\* a trigger that fires at 85% already
shouldOptimizeConversationInclusive(messages, systemPrompt, model) ==
    LET tokens == calculateConversationTokens(messages, systemPrompt, <<>>)
        usage == getTokenUsage(tokens, model)
    IN  usage.level = "danger" \/ 100 * usage.estimated >= 85 * usage.limit

shouldOptimizeConversation(messages, systemPrompt, model) ==
    LET tokens == calculateConversationTokens(messages, systemPrompt, <<>>)
        usage == getTokenUsage(tokens, model)
    IN  usage.level = "danger" \/ 100 * usage.estimated > 85 * usage.limit

SummaryMessage(n) ==
    Bot(<<"*", "[", SUMMARY_PRE>> \o Digits(n) \o <<SUMMARY_POST, "]", "*">>)

\* an optimizer that summarizes one or two older messages too
optimizeConversationEager(messages, keepRecentCount) ==
    IF Len(messages) <= keepRecentCount THEN messages
    ELSE LET recentMessages == Last(messages, keepRecentCount)
             oldMessages == SubSeq(messages, 1, Len(messages) - keepRecentCount)
         IN  <<SummaryMessage(Len(oldMessages))>> \o recentMessages

\* keepRecentCount is at least 1 (the callers pass none, the default is 6)
optimizeConversation(messages, keepRecentCount) ==
    IF Len(messages) <= keepRecentCount THEN messages
    ELSE LET recentMessages == Last(messages, keepRecentCount)
             oldMessages == SubSeq(messages, 1, Len(messages) - keepRecentCount)
         IN  IF Len(oldMessages) <= 2 THEN recentMessages
             ELSE <<SummaryMessage(Len(oldMessages))>> \o recentMessages

\* a loop that passes over a message that overflows and goes on to older ones
RECURSIVE TruncateWalkSkip(_, _, _, _, _)
TruncateWalkSkip(messages, i, currentTokens, targetTokens, result) ==
    IF i < 1 THEN result
    ELSE LET messageTokens == estimateTokens(messages[i].message) + 6
         IN  IF currentTokens + messageTokens <= targetTokens
             THEN TruncateWalkSkip(messages, i - 1, currentTokens + messageTokens,
                                   targetTokens, <<messages[i]>> \o result)
             ELSE TruncateWalkSkip(messages, i - 1, currentTokens, targetTokens, result)

\* The loop from message to down to message from with room tokens left: the
\* index of the oldest message it unshifts, to + 1 when it unshifts none.
\* Every message costs at least 6, so the loop breaks at the first message
\* where the sum from it to the newest exceeds the room, found by halves.
RECURSIVE KeptFrom(_, _, _, _)
KeptFrom(messages, from, to, room) ==
    IF from > to THEN to + 1
    ELSE IF from = to
         THEN (IF estimateTokens(messages[to].message) + 6 <= room THEN to ELSE to + 1)
    ELSE LET mid == (from + to + 1) \div 2
             newer == SumTokensBetween(messages, mid, to)
         IN  IF newer <= room THEN KeptFrom(messages, from, mid - 1, room - newer)
             ELSE KeptFrom(messages, mid, to, room)

\* the loop from message i down, with currentTokens spent and result built
TruncateWalk(messages, i, currentTokens, targetTokens, result) ==
    SubSeq(messages, KeptFrom(messages, 1, i, targetTokens - currentTokens), i) \o result

\* a truncation that does not reserve the 1000 tokens of the response
truncateConversationNoReserve(messages, systemPrompt, model, targetPercent) ==
    LET limit == LimitOf(model)
        targetTokens == (limit * targetPercent) \div 100
    IN  TruncateWalk(messages, Len(messages),
                     estimateTokens(systemPrompt) + 10, targetTokens, <<>>)

\* targetPercent is the target fraction in hundredths (the default 0.7 is 70)
truncateConversation(messages, systemPrompt, model, targetPercent) ==
    LET limit == LimitOf(model)
        targetTokens == (limit * targetPercent) \div 100
    IN  TruncateWalk(messages, Len(messages),
                     estimateTokens(systemPrompt) + 10 + 1000, targetTokens, <<>>)

----------------------------------------------------------------------------
(* Chat view *)

MaxHistory == 100
KeepRecentCount == 6
TargetPercent == 70

currentModel == "gpt-4.1"
systemPrompt == <<SYSTEM_DEFAULT>>

NOTICE == Bot(<<"*", NOTICE_BODY, "*">>)

\* a detached element drops the line breaks its innerText was set with
sanitizeInput(text) == SelectSeq(text, LAMBDA c : c # "\n")

\* a cap that keeps one message less
CapHistoryShort(updated) ==
    IF Len(updated) > MaxHistory THEN Last(updated, MaxHistory - 1) ELSE updated

CapHistory(updated) == IF Len(updated) > MaxHistory THEN Last(updated, MaxHistory) ELSE updated

Inputs == {<<"q">>, <<BIG>>}
Fragments == {<<"a">>, <<"b">>}

\* the text the provider streams: its n-th chunk
ChunkAt(n) == IF n % 2 = 1 THEN <<"a">> ELSE <<"b">>

Patterns == {"API key", "401", "quota", "rate limit", "context_length_exceeded"}

\* values a rejected request or a broken stream can throw
ThrownErrors ==
    {[isError |-> TRUE, name |-> "Error", message |-> m] :
        m \in {p \in SUBSET Patterns : Cardinality(p) <= 2}}
ThrownNonError == [isError |-> FALSE, name |-> "", message |-> {}]
AbortError == [isError |-> TRUE, name |-> "AbortError", message |-> {}]
Thrown == ThrownErrors \cup {ThrownNonError}
NoKeyError == [isError |-> TRUE, name |-> "Error", message |-> {"Invalid OpenAI API key", "API key"}]

IsContextLength(e) ==
    e.message \cap {"context_length_exceeded", "maximum context length", "token limit", "413"} # {}

ErrorMessageFor(e) ==
    IF e.message \cap {"Invalid OpenAI API key", "API key"} # {} THEN ERR_NO_KEY
    ELSE IF "401" \in e.message THEN ERR_401
    ELSE IF e.message \cap {"quota", "billing"} # {} THEN ERR_QUOTA
    ELSE IF "rate limit" \in e.message THEN ERR_RATE
    ELSE IF IsContextLength(e) THEN ERR_CONTEXT
    ELSE ERR_GENERIC

Sessions == 1..MaxSessions

NoWindow == [has |-> FALSE, w |-> <<>>]

\* One invocation of sendMessage.  pc is its position; aborted is
\* controller.signal.aborted; cMessages, cOptimized, cAbort are the values of
\* messages, optimizedMessages, abortController its closure captured;
\* cleanInput, messagesToUse, fullResponse are its locals.  The other fields
\* record what happened: base is the first value of messagesToUse, received
\* the chunks appended so far, ctxWindow the window a context-length failure
\* left for this submission, reduction / outcome / commits / failures /
\* cancel / opened the path taken.  The locals are dropped when the invocation returns.
IdleSession ==
    [pc |-> "idle", aborted |-> FALSE, cMessages |-> <<>>, cOptimized |-> <<>>,
     cAbort |-> NULL, cleanInput |-> <<>>, base |-> <<>>, messagesToUse |-> <<>>,
     fullResponse |-> <<>>, received |-> <<>>, ctxWindow |-> NoWindow,
     reduction |-> "none", outcome |-> "none",
     commits |-> <<>>, failures |-> 0, cancel |-> "none", opened |-> FALSE]

InitState ==
    [messages |-> <<>>, isTyping |-> FALSE, isGenerating |-> FALSE,
     streamingMessage |-> <<>>, abortController |-> NULL, optimizedMessages |-> <<>>]

----------------------------------------------------------------------------
(* The chat view's sessions *)

\* tm: a history, a model, and the call made on them with its arguments
\* (keepRecentCount, draft, tokens) and what it returned (result, tokens,
\* usage, flag); call is "none" between calls
NoUsage == [estimated |-> 0, limit |-> 0, level |-> "none", remaining |-> 0]

NoCall ==
    [messages |-> <<>>, model |-> currentModel, call |-> "none",
     keepRecentCount |-> 0, draft |-> <<>>, tokens |-> 0,
     result |-> <<>>, usage |-> NoUsage, flag |-> FALSE,
     systemPrompt |-> systemPrompt, targetPercent |-> TargetPercent]

\* vl: the message list
NoList == [mounted |-> FALSE]

\* db: the debounced token calculation of a chat view
NoDebounce == [mounted |-> FALSE]

\* app: the preset that is shown (currentScannerType, "" for the preset
\* selection screen), the messages of preset B (those of preset A are
\* st.messages), the navigations made and the chat views mounted
ScannerTypes == {"A", "B"}
PresetScreen == [currentScannerType |-> "", other |-> <<>>, navigations |-> 0, mounts |-> 0]
ChatShown == [PresetScreen EXCEPT !.currentScannerType = "A", !.mounts = 1]

\* the chat view whose sessions are modelled is on screen: the one mounted
\* first, showing preset A
ChatHandlers == app.currentScannerType = "A" /\ app.mounts = 1

\* sv: the saved conversations of a preset
NoSaved == [conversations |-> <<>>]

\* the chat view as mounted
ChatInit ==
    /\ st = InitState
    /\ view = InitState
    /\ sess = [s \in Sessions |-> IdleSession]
    /\ nsess = 0
    /\ pendingWindow = NoWindow
    /\ noopStop = FALSE

Init ==
    /\ ChatInit
    /\ apiKey \in BOOLEAN
    /\ tm = NoCall
    /\ vl = NoList
    /\ db = NoDebounce
    /\ app = ChatShown
    /\ sv = NoSaved

\* a continuation of an await on an already settled promise runs before any
\* event, timer or network task
MicrotaskPending == \E s \in Sessions : sess[s].pc = "optimizing"

Active(s) == sess[s].pc \in {"optimizing", "creating", "streaming"}

RECURSIVE Flatten(_)
Flatten(chunks) == IF chunks = <<>> THEN <<>> ELSE Head(chunks) \o Flatten(Tail(chunks))

\* A context c = [st, s, pw] carries the state, the session's locals and the
\* retained-window record through the blocks of sendMessage.

\* a finally block that leaves isTyping as it is
FinallyKeepTyping(c) ==
    [c EXCEPT !.st.isGenerating = FALSE,
              !.st.abortController = NULL,
              !.st.streamingMessage = <<>>,
              !.s = [IdleSession EXCEPT !.pc = "done",
                                        !.aborted = c.s.aborted,
                                        !.reduction = c.s.reduction,
                                        !.outcome = c.s.outcome,
                                        !.commits = c.s.commits,
                                        !.failures = c.s.failures,
                                        !.cancel = c.s.cancel,
                                        !.opened = c.s.opened]]

Finally(c) ==
    [c EXCEPT !.st.isTyping = FALSE,
              !.st.isGenerating = FALSE,
              !.st.abortController = NULL,
              !.st.streamingMessage = <<>>,
              !.s = [IdleSession EXCEPT !.pc = "done",
                                        !.aborted = c.s.aborted,
                                        !.reduction = c.s.reduction,
                                        !.outcome = c.s.outcome,
                                        !.commits = c.s.commits,
                                        !.failures = c.s.failures,
                                        !.cancel = c.s.cancel,
                                        !.opened = c.s.opened]]

Catch(c, e) ==
    IF e.isError /\ e.name # "AbortError"
    THEN LET window == truncateConversation(c.s.cMessages, systemPrompt, currentModel, TargetPercent)
             c1 == IF ErrorMessageFor(e) = ERR_CONTEXT
                   THEN [c EXCEPT !.st.optimizedMessages = window,
                                  !.pw = [has |-> TRUE, w |-> window]]
                   ELSE c
         IN  [c1 EXCEPT !.st.messages = CapHistory(Append(@, Bot(<<ErrorMessageFor(e)>>))),
                        !.s.failures = @ + 1,
                        !.s.outcome = "failed"]
    ELSE [c EXCEPT !.s.outcome = IF e = AbortError THEN "aborted" ELSE "failed"]

\* conversationPayload, getOpenAIClient and the call of create
OpenRequest(c) ==
    IF apiKey THEN [c EXCEPT !.s.pc = "creating", !.s.opened = TRUE]
    ELSE Finally(Catch(c, NoKeyError))

Ctx(s) == [st |-> st, s |-> sess[s], pw |-> pendingWindow]

Apply(s, c) ==
    /\ st' = c.st
    /\ sess' = [sess EXCEPT ![s] = c.s]
    /\ pendingWindow' = c.pw
    /\ noopStop' = FALSE
    /\ UNCHANGED <<tm, vl, db, app, sv>>

Send(text) ==
    /\ ChatHandlers
    /\ ~MicrotaskPending
    /\ nsess < MaxSessions
    /\ text # <<>>
    /\ ~view.isTyping
    /\ LET s == nsess + 1
           cleanInput == sanitizeInput(text)
           userMsg == User(cleanInput)
           base == IF view.optimizedMessages # <<>> THEN view.optimizedMessages
                   ELSE view.messages
           st1 == [st EXCEPT !.messages = CapHistory(Append(@, userMsg)),
                             !.isTyping = TRUE,
                             !.isGenerating = TRUE,
                             !.streamingMessage = <<>>,
                             !.abortController = s]
           s1 == [IdleSession EXCEPT !.cMessages = view.messages,
                                     !.cOptimized = view.optimizedMessages,
                                     !.cAbort = view.abortController,
                                     !.cleanInput = cleanInput,
                                     !.base = base,
                                     !.messagesToUse = base,
                                     !.ctxWindow = pendingWindow]
           c1 == [st |-> st1, s |-> s1, pw |-> NoWindow]
           c2 == IF shouldOptimizeConversation(Append(base, userMsg), systemPrompt, currentModel)
                 THEN [c1 EXCEPT !.s.pc = "optimizing"]
                 ELSE OpenRequest(c1)
       IN  /\ Apply(s, c2)
           /\ nsess' = s
           /\ view' = c2.st
           /\ UNCHANGED apiKey

\* the reduction step with a catch branch that gives the submission up
ReduceRethrow(c, throws) ==
    IF throws THEN Finally([c EXCEPT !.s.reduction = "fallback", !.s.outcome = "failed"])
    ELSE LET list == Append(c.s.messagesToUse, User(c.s.cleanInput))
             optimized == optimizeConversation(list, KeepRecentCount)
         IN  OpenRequest([c EXCEPT !.s.messagesToUse = DropLast(optimized),
                                   !.s.reduction = "optimize",
                                   !.st.optimizedMessages = DropLast(optimized),
                                   !.st.messages = CapHistory(Append(@, NOTICE))])

\* the reduction step after await optimizeConversation(...) settled: the try
\* branch when it resolved, the catch branch when it threw; then the request
Reduce(c, throws) ==
    LET list == Append(c.s.messagesToUse, User(c.s.cleanInput))
        c1 == IF ~throws
              THEN LET optimized == optimizeConversation(list, KeepRecentCount)
                   IN  [c EXCEPT !.s.messagesToUse = DropLast(optimized),
                                 !.s.reduction = "optimize",
                                 !.st.optimizedMessages = DropLast(optimized),
                                 !.st.messages = CapHistory(Append(@, NOTICE))]
              ELSE LET truncated == truncateConversation(list, systemPrompt, currentModel, TargetPercent)
                   IN  [c EXCEPT !.s.messagesToUse = DropLast(truncated),
                                 !.s.reduction = "fallback",
                                 !.st.optimizedMessages = DropLast(truncated)]
    IN  OpenRequest(c1)

OptimizeReturn(s, throws) ==
    /\ sess[s].pc = "optimizing"
    /\ Apply(s, Reduce(Ctx(s), throws))
    /\ UNCHANGED <<view, nsess, apiKey>>

\* await openai.chat.completions.create(...) resolves with a stream
CreateResolve(s) ==
    /\ ~MicrotaskPending
    /\ sess[s].pc = "creating"
    /\ ~sess[s].aborted
    /\ Apply(s, [Ctx(s) EXCEPT !.s.pc = "streaming"])
    /\ UNCHANGED <<view, nsess, apiKey>>

\* one iteration of the for-await loop with a chunk that carries content
Fragment(s, content) ==
    /\ ~MicrotaskPending
    /\ sess[s].pc = "streaming"
    /\ ~sess[s].aborted
    /\ Len(sess[s].received) < MaxFragments
    /\ content = ChunkAt(Len(sess[s].received) + 1)
    /\ content # <<>>
    /\ LET fullResponse == sess[s].fullResponse \o content
       IN  Apply(s, [Ctx(s) EXCEPT !.s.fullResponse = fullResponse,
                                   !.s.received = Append(@, content),
                                   !.st.streamingMessage = fullResponse])
    /\ UNCHANGED <<view, nsess, apiKey>>

\* the stream ends and the signal is not aborted: completion commit, finally
StreamEnd(s) ==
    /\ ~MicrotaskPending
    /\ sess[s].pc = "streaming"
    /\ ~sess[s].aborted
    /\ LET c == Ctx(s)
           c1 == [c EXCEPT !.st.messages = CapHistory(Append(@, Bot(c.s.fullResponse))),
                           !.st.streamingMessage = <<>>,
                           !.st.optimizedMessages =
                               IF c.s.cOptimized # <<>> THEN <<>> ELSE @,
                           !.s.commits = Append(@, "completed"),
                           !.s.outcome = "completed"]
       IN  Apply(s, Finally(c1))
    /\ UNCHANGED <<view, nsess, apiKey>>

\* after abort(): the loop breaks on the aborted signal or the stream ends
\* ("break"), or the pending request or read rejects with an AbortError
AbortedExit(s, how) ==
    /\ ~MicrotaskPending
    /\ sess[s].pc \in {"creating", "streaming"}
    /\ sess[s].aborted
    /\ how = "break" => sess[s].pc = "streaming"
    /\ LET c == Ctx(s)
           c1 == IF how = "break" THEN [c EXCEPT !.s.outcome = "aborted"]
                 ELSE Catch(c, AbortError)
       IN  Apply(s, Finally(c1))
    /\ UNCHANGED <<view, nsess, apiKey>>

\* the request or the stream throws e
ProviderError(s, e) ==
    /\ ~MicrotaskPending
    /\ sess[s].pc \in {"creating", "streaming"}
    /\ ~sess[s].aborted
    /\ Apply(s, Finally(Catch(Ctx(s), e)))
    /\ UNCHANGED <<view, nsess, apiKey>>

\* the invocation whose controller is aborted keeps its locals
StopSession(s) ==
    [sess[s] EXCEPT !.aborted = TRUE,
                    !.commits = IF view.streamingMessage # <<>>
                                THEN Append(@, "cancelled") ELSE @,
                    !.cancel = IF sess[s].pc = "done" THEN @
                               ELSE IF view.streamingMessage = Flatten(sess[s].received)
                               THEN "exact" ELSE "lost"]

\* stopGeneration without setAbortController(null)
StopUpdatesKeepHandle(state, v) ==
    LET st1 == [state EXCEPT !.isTyping = FALSE,
                             !.isGenerating = FALSE]
    IN  IF v.streamingMessage # <<>>
        THEN [st1 EXCEPT !.messages = Append(@, Bot(v.streamingMessage)),
                         !.streamingMessage = <<>>]
        ELSE st1

\* the state updates of stopGeneration, v being the render its closure is from
StopUpdates(state, v) ==
    LET st1 == [state EXCEPT !.abortController = NULL,
                             !.isTyping = FALSE,
                             !.isGenerating = FALSE]
    IN  IF v.streamingMessage # <<>>
        THEN [st1 EXCEPT !.messages = Append(@, Bot(v.streamingMessage)),
                         !.streamingMessage = <<>>]
        ELSE st1

stopGeneration ==
    /\ ChatHandlers
    /\ ~MicrotaskPending
    /\ IF view.abortController # NULL
       THEN /\ st' = StopUpdates(st, view)
            /\ view' = st'
            /\ sess' = [sess EXCEPT ![view.abortController] = StopSession(view.abortController)]
            /\ noopStop' = FALSE
       ELSE /\ noopStop = FALSE
            /\ noopStop' = TRUE
            /\ UNCHANGED <<st, view, sess>>
    /\ UNCHANGED <<nsess, pendingWindow, apiKey, tm, vl, db, app, sv>>

Render ==
    /\ ~MicrotaskPending
    /\ view # st
    /\ view' = st
    /\ noopStop' = FALSE
    /\ UNCHANGED <<st, sess, nsess, pendingWindow, apiKey, tm, vl, db, app, sv>>

Next ==
    \/ \E text \in Inputs : Send(text)
    \/ \E s \in Sessions, throws \in BOOLEAN : OptimizeReturn(s, throws)
    \/ \E s \in Sessions : CreateResolve(s)
    \/ \E s \in Sessions, content \in Fragments : Fragment(s, content)
    \/ \E s \in Sessions : StreamEnd(s)
    \/ \E s \in Sessions, how \in {"break", "AbortError"} : AbortedExit(s, how)
    \/ \E s \in Sessions, e \in Thrown : ProviderError(s, e)
    \/ stopGeneration
    \/ Render

Spec == Init /\ [][Next]_vars

\* what the provider and the SDK do for the request of invocation s
ProviderStep(s) ==
    \/ CreateResolve(s)
    \/ \E content \in Fragments : Fragment(s, content)
    \/ StreamEnd(s)
    \/ \E how \in {"break", "AbortError"} : AbortedExit(s, how)
    \/ \E e \in Thrown : ProviderError(s, e)

\* every opened request eventually resolves, yields, ends or throws; a settled
\* await is continued; a scheduled render is committed
Fairness ==
    /\ \A s \in Sessions : WF_vars(ProviderStep(s))
    /\ \A s \in Sessions : WF_vars(\E throws \in BOOLEAN : OptimizeReturn(s, throws))
    /\ WF_vars(Render)

LiveSpec == Init /\ [][Next]_vars /\ Fairness

----------------------------------------------------------------------------
(* Callers of the token manager *)

Models == {"gpt-4.1", "gpt-4o", "gpt-5"}
MessageTexts == {<<"q">>, <<FIT>>, <<EDGE>>, <<BIG>>}
Drafts == {<<>>, <<"q">>, <<" ">>}
KeepCounts == {1, 2, KeepRecentCount}

\* the values getTokenUsage is called with: around each threshold and the limit
UsageInputs(model) ==
    {0} \cup {(LimitOf(model) * p) \div 10 + d : p \in {6, 8, 9, 10}, d \in {-1, 0, 1}}

Returned(call) ==
    [NoCall EXCEPT !.messages = tm.messages, !.model = tm.model, !.call = call]

\* the chat view alternates user and assistant messages
AppendMessage(text) ==
    /\ Len(tm.messages) < MaxLen
    /\ Len(tm.messages) >= MaxMixed => text = <<"q">>
    /\ tm' = [Returned("none") EXCEPT
                 !.messages = Append(tm.messages,
                                     IF Len(tm.messages) % 2 = 0 THEN User(text) ELSE Bot(text))]
    /\ UNCHANGED <<chatVars, vl, db, app, sv>>

CallTruncate ==
    /\ tm.call = "none"
    /\ tm' = [Returned("truncate") EXCEPT
                 !.result = truncateConversation(tm.messages, systemPrompt, tm.model, TargetPercent)]
    /\ UNCHANGED <<chatVars, vl, db, app, sv>>

\* a call with a system prompt the user wrote for a preset and an explicit
\* target fraction; floor(limit * p / 100) in floating point is the integer
\* quotient for these fractions and both limits
SystemPrompts == {<<SYSTEM_DEFAULT>>, <<LONG_PROMPT>>}
TargetPercents == {50, TargetPercent, 85}

CallTruncateWith(prompt, percent) ==
    /\ tm.call = "none"
    /\ tm' = [Returned("truncateWith") EXCEPT
                 !.systemPrompt = prompt,
                 !.targetPercent = percent,
                 !.result = truncateConversation(tm.messages, prompt, tm.model, percent)]
    /\ UNCHANGED <<chatVars, vl, db, app, sv>>

CallOptimize(k) ==
    /\ tm.call = "none"
    /\ tm' = [Returned("optimize") EXCEPT
                 !.keepRecentCount = k,
                 !.result = optimizeConversation(tm.messages, k)]
    /\ UNCHANGED <<chatVars, vl, db, app, sv>>

CallShouldOptimize ==
    /\ tm.call = "none"
    /\ tm' = [Returned("shouldOptimize") EXCEPT
                 !.flag = shouldOptimizeConversation(tm.messages, systemPrompt, tm.model)]
    /\ UNCHANGED <<chatVars, vl, db, app, sv>>

CallCalculate(draft) ==
    /\ tm.call = "none"
    /\ tm' = [Returned("calculate") EXCEPT
                 !.draft = draft,
                 !.tokens = calculateConversationTokens(tm.messages, systemPrompt, draft)]
    /\ UNCHANGED <<chatVars, vl, db, app, sv>>

CallGetTokenUsage(n) ==
    /\ tm.call = "none"
    /\ n \in UsageInputs(tm.model)
    /\ tm' = [Returned("getTokenUsage") EXCEPT
                 !.tokens = n,
                 !.usage = getTokenUsage(n, tm.model)]
    /\ UNCHANGED <<chatVars, vl, db, app, sv>>

TokenInit ==
    /\ ChatInit
    /\ apiKey = TRUE
    /\ tm \in {[NoCall EXCEPT !.model = m] : m \in Models}
    /\ vl = NoList
    /\ db = NoDebounce
    /\ app = ChatShown
    /\ sv = NoSaved

TokenNext ==
    \/ \E text \in MessageTexts : AppendMessage(text)
    \/ CallTruncate
    \/ \E prompt \in SystemPrompts, percent \in TargetPercents : CallTruncateWith(prompt, percent)
    \/ \E k \in KeepCounts : CallOptimize(k)
    \/ CallShouldOptimize
    \/ \E draft \in Drafts : CallCalculate(draft)
    \/ \E n \in UNION {UsageInputs(m) : m \in Models} : CallGetTokenUsage(n)

TokenSpec == TokenInit /\ [][TokenNext]_vars

----------------------------------------------------------------------------
(* The message list *)

VirtualizeThreshold == 50
ContainerHeight == 600
EstimatedItemHeight == 100
DefaultOverscan == 5

Max(a, b) == IF a > b THEN a ELSE b
Min(a, b) == IF a < b THEN a ELSE b

\* the lists the component is given: A has 200 messages that all render at
\* the estimated height, B has 60 messages of which every fourth renders
\* three times as high, C is too short to be windowed, D has 60 messages of
\* which the first five are long and render three times as high
ListIds == {"A", "B", "C", "D"}

Length(list) == CASE list = "A" -> 200 [] list = "B" -> 60 [] list = "C" -> 10
                  [] list = "D" -> 60

\* the height the browser lays item i of the list out at (minHeight is the
\* estimated height)
RenderedHeight(list, i) ==
    IF (list = "B" /\ i % 4 = 1) \/ (list = "D" /\ i < 5)
    THEN 3 * EstimatedItemHeight ELSE EstimatedItemHeight

\* containerHeight and overscan as the chat view passes them, and other values
Props ==
    {[containerHeight |-> ContainerHeight, overscan |-> DefaultOverscan],
     [containerHeight |-> ContainerHeight + 50, overscan |-> DefaultOverscan],
     [containerHeight |-> ContainerHeight + 50, overscan |-> 0]}

shouldVirtualize(n) == n > VirtualizeThreshold

\* heightCache.current.get(i) || estimatedItemHeight; an entry of the cache is
\* the height with the list it was measured under
HeightAt(cache, i) ==
    IF i \in DOMAIN cache /\ cache[i].height # 0 THEN cache[i].height
    ELSE EstimatedItemHeight

\* the sum of the heights of items from..to-1, by halves
RECURSIVE SumHeights(_, _, _)
SumHeights(cache, from, to) ==
    IF from >= to THEN 0
    ELSE IF to = from + 1 THEN HeightAt(cache, from)
    ELSE LET mid == (from + to) \div 2
         IN  SumHeights(cache, from, mid) + SumHeights(cache, mid, to)

\* A loop that adds the heights of items from, from+1, ... to
\* accumulatedHeight and breaks at the first item i < to where the sum
\* exceeds limit: the index where it breaks, or to when it does not.  The
\* heights are positive, so the sum grows and the index is found by halves.
RECURSIVE BreakIndex(_, _, _, _, _)
BreakIndex(cache, from, to, limit, accumulatedHeight) ==
    IF from >= to THEN to
    ELSE IF to = from + 1
         THEN (IF accumulatedHeight + HeightAt(cache, from) > limit THEN from ELSE to)
    ELSE LET mid == (from + to) \div 2
             half == SumHeights(cache, from, mid)
         IN  IF accumulatedHeight + half > limit
             THEN BreakIndex(cache, from, mid, limit, accumulatedHeight)
             ELSE BreakIndex(cache, mid, to, limit, accumulatedHeight + half)

\* the index at which the first loop breaks (n when it does not)
StartBreak(cache, n, scrollTop) == BreakIndex(cache, 0, n, scrollTop, 0)

\* the index at which the second loop breaks (n when it does not)
EndBreak(cache, n, limit, startIndex) == BreakIndex(cache, startIndex, n, limit, 0)

StartIndex(cache, n, scrollTop, overscan) ==
    LET i == StartBreak(cache, n, scrollTop)
    IN  IF i < n THEN Max(0, i - overscan) ELSE 0

visibleRange(cache, n, scrollTop, containerHeight, overscan) ==
    IF ~shouldVirtualize(n) THEN [start |-> 0, end |-> n]
    ELSE LET startIndex == StartIndex(cache, n, scrollTop, overscan)
             i == EndBreak(cache, n, containerHeight + overscan * EstimatedItemHeight,
                           startIndex)
             endIndex == IF i < n THEN Min(n - 1, i + overscan) ELSE n - 1
         IN  [start |-> startIndex, end |-> endIndex]

\* the indices whose cache entry the two loops read
RangeReads(cache, n, scrollTop, containerHeight, overscan) ==
    LET startIndex == StartIndex(cache, n, scrollTop, overscan)
    IN  (0..Min(n - 1, StartBreak(cache, n, scrollTop)))
        \cup (startIndex..Min(n - 1, EndBreak(cache, n,
                  containerHeight + overscan * EstimatedItemHeight, startIndex)))

Totals(cache, n, start) ==
    IF ~shouldVirtualize(n) THEN [totalHeight |-> 0, offsetY |-> 0]
    ELSE [totalHeight |-> SumHeights(cache, 0, n), offsetY |-> SumHeights(cache, 0, start)]

\* the indices of the elements with a data-index attribute
RenderedItems(n, range) ==
    IF shouldVirtualize(n) THEN range.start..Min(range.end, n - 1) ELSE 0..(n - 1)

\* One render of the component and the effects that follow it.  v holds the
\* props and state of this render (list, scrollTop) and the memoized values,
\* dependency lists, observed elements and undelivered observations of the
\* render before; previous is the list of the render before.
RenderList(v, previous) ==
    LET n == Length(v.list)
        rangeDeps == <<v.scrollTop, n, v.containerHeight, v.overscan, shouldVirtualize(n)>>
        rangeChanged == rangeDeps # v.rangeDeps
        range == IF rangeChanged
                 THEN visibleRange(v.heightCache, n, v.scrollTop, v.containerHeight, v.overscan)
                 ELSE v.visibleRange
        totalsDeps == <<n, range.start, shouldVirtualize(n)>>
        totalsChanged == totalsDeps # v.totalsDeps
        totals == IF totalsChanged THEN Totals(v.heightCache, n, range.start)
                  ELSE [totalHeight |-> v.totalHeight, offsetY |-> v.offsetY]
        foreign(reads) == \E i \in reads \cap DOMAIN v.heightCache :
                              v.heightCache[i].list # v.list
        observed == IF ~rangeChanged THEN v.observed
                    ELSE IF shouldVirtualize(n) THEN RenderedItems(n, range)
                    ELSE {}
        pending == IF rangeChanged THEN observed
                   ELSE v.pending \cup {i \in v.observed :
                            RenderedHeight(v.list, i) # RenderedHeight(previous, i)}
    IN  [v EXCEPT !.rangeDeps = rangeDeps,
                  !.visibleRange = range,
                  !.totalsDeps = totalsDeps,
                  !.totalHeight = totals.totalHeight,
                  !.offsetY = totals.offsetY,
                  !.observed = observed,
                  !.pending = pending,
                  !.usedStale = \/ @
                                \/ /\ shouldVirtualize(n)
                                   /\ \/ rangeChanged /\ foreign(RangeReads(v.heightCache, n,
                                            v.scrollTop, v.containerHeight, v.overscan))
                                      \/ totalsChanged /\ foreign(0..(n - 1))]

Mount(list, props) ==
    RenderList([mounted |-> TRUE, list |-> list,
                containerHeight |-> props.containerHeight, overscan |-> props.overscan,
                scrollTop |-> 0, heightCache |-> <<>>,
                rangeDeps |-> <<>>, visibleRange |-> [start |-> 0, end |-> 0],
                totalsDeps |-> <<>>, totalHeight |-> 0, offsetY |-> 0,
                observed |-> {}, pending |-> {},
                scrolls |-> 0, switches |-> 0, usedStale |-> FALSE], list)

\* how far the container scrolls
ScrollExtent ==
    LET n == Length(vl.list)
        content == IF shouldVirtualize(n) THEN vl.totalHeight
                   ELSE n * EstimatedItemHeight
    IN  Max(0, content - vl.containerHeight)

\* handleScroll and the render that setScrollTop causes
Scroll(scrollTop) ==
    /\ vl.mounted
    /\ vl.scrolls < MaxScrolls
    /\ scrollTop # vl.scrollTop
    /\ scrollTop <= ScrollExtent
    /\ vl' = RenderList([vl EXCEPT !.scrollTop = scrollTop, !.scrolls = @ + 1], vl.list)
    /\ UNCHANGED <<chatVars, tm, db, app, sv>>

\* the callback of the ResizeObserver, for every element with an
\* undelivered observation
Measure ==
    /\ vl.mounted
    /\ vl.pending # {}
    /\ vl' = [vl EXCEPT
                 !.heightCache =
                     [i \in DOMAIN vl.heightCache \cup vl.pending |->
                         IF i \in vl.pending
                         THEN [height |-> RenderedHeight(vl.list, i), list |-> vl.list]
                         ELSE vl.heightCache[i]],
                 !.pending = {}]
    /\ UNCHANGED <<chatVars, tm, db, app, sv>>

\* the parent renders the component with the messages of another conversation
SwitchList(list) ==
    /\ vl.mounted
    /\ vl.switches < MaxSwitches
    /\ list # vl.list
    /\ vl' = RenderList([vl EXCEPT !.list = list, !.switches = @ + 1], vl.list)
    /\ UNCHANGED <<chatVars, tm, db, app, sv>>

ScrollPositions == {s \in 0..(Length("A") * 3 * EstimatedItemHeight) : s % 100 \in {0, 60}}

ListInit ==
    /\ ChatInit
    /\ apiKey = TRUE
    /\ tm = NoCall
    /\ vl \in {Mount(list, props) : list \in ListIds, props \in Props}
    /\ db = NoDebounce
    /\ app = ChatShown
    /\ sv = NoSaved

ListNext ==
    \/ \E scrollTop \in ScrollPositions : Scroll(scrollTop)
    \/ Measure
    \/ \E list \in ListIds : SwitchList(list)

ListSpec == ListInit /\ [][ListNext]_vars

----------------------------------------------------------------------------
(* The debounced token calculation *)

DebounceMs == 150
TicksPerInterval == 3
MaxChanges == 4
MaxDebounceHistory == 2

\* a conversation the sidebar can load
SavedMessages == {<<User(<<"q">>)>>, <<User(<<"q">>), Bot(<<"a">>)>>}

\* The chat view as far as the calculation goes.  messages is the
\* application's currentMessages, of which the view is given the entry of
\* scannerType; ref is debounceTimeoutRef.current; timers are the timeouts
\* set and neither run nor cleared, each with the arguments and the
\* optimizedMessages its callback closed over and the time left; burst counts
\* the calls since the last run of a callback, lastBurst the calls the last
\* run followed, fires the runs since the last call.
Unmounted(messages, nextId, changes) ==
    [mounted |-> FALSE, scannerType |-> "", messages |-> messages,
     input |-> <<>>, optimizedMessages |-> <<>>, tokenUsage |-> NoUsage,
     ref |-> NULL, timers |-> {}, nextId |-> nextId, changes |-> changes,
     burst |-> 0, lastBurst |-> 0, fires |-> 0, staleWrite |-> FALSE]

\* a callback that sets a timeout without clearing the one before
debouncedTokenCalculationNoClear(d) ==
    [d EXCEPT !.timers = @ \cup {[id |-> d.nextId, remaining |-> DebounceMs,
                                  scannerType |-> d.scannerType,
                                  messages |-> d.messages[d.scannerType],
                                  input |-> d.input,
                                  optimized |-> d.optimizedMessages]},
              !.ref = d.nextId,
              !.nextId = @ + 1,
              !.burst = @ + 1,
              !.fires = 0]

\* the effect of the render d, which calls the callback of that render with
\* messages and input
debouncedTokenCalculation(d) ==
    [d EXCEPT !.timers = {t \in @ : d.ref = NULL \/ t.id # d.ref}
                            \cup {[id |-> d.nextId, remaining |-> DebounceMs,
                                   scannerType |-> d.scannerType,
                                   messages |-> d.messages[d.scannerType],
                                   input |-> d.input,
                                   optimized |-> d.optimizedMessages]},
              !.ref = d.nextId,
              !.nextId = @ + 1,
              !.burst = @ + 1,
              !.fires = 0]

\* the cleanup of the effect on scannerType
scannerTypeCleanup(d) ==
    [d EXCEPT !.timers = {t \in @ : d.ref = NULL \/ t.id # d.ref},
              !.ref = NULL]

\* the effects of a render with another scannerType: the cleanup, the
\* calculation effect, the effect on scannerType, which resets
\* optimizedMessages, and the calculation effect of the render that follows
scannerTypeChanged(d) ==
    debouncedTokenCalculation(
        [debouncedTokenCalculation(scannerTypeCleanup(d)) EXCEPT !.optimizedMessages = <<>>])

\* the first render of the view and its effects
MountChat(d, scannerType) ==
    debouncedTokenCalculation(
        [debouncedTokenCalculation([d EXCEPT !.mounted = TRUE, !.scannerType = scannerType])
            EXCEPT !.optimizedMessages = <<>>])

Changed(d) == [d EXCEPT !.changes = @ + 1]

\* handleInputChange
EditDraft(draft) ==
    /\ db.mounted
    /\ db.changes < MaxChanges
    /\ draft # db.input
    /\ db' = debouncedTokenCalculation(Changed([db EXCEPT !.input = draft]))
    /\ UNCHANGED <<chatVars, tm, vl, app, sv>>

\* a message is appended to the history
CommitMessage(text) ==
    /\ db.mounted
    /\ db.changes < MaxChanges
    /\ Len(db.messages[db.scannerType]) < MaxDebounceHistory
    /\ LET history == db.messages[db.scannerType]
           message == IF Len(history) % 2 = 0 THEN User(text) ELSE Bot(text)
       IN  db' = debouncedTokenCalculation(
                     Changed([db EXCEPT !.messages[db.scannerType] = Append(history, message)]))
    /\ UNCHANGED <<chatVars, tm, vl, app, sv>>

\* setOptimizedMessages: with a reduced history, or with a new empty array
SetOptimizedMessages(reduced) ==
    /\ db.mounted
    /\ db.changes < MaxChanges
    /\ LET window == IF reduced THEN Last(db.messages[db.scannerType], 1) ELSE <<>>
       IN  db' = debouncedTokenCalculation(Changed([db EXCEPT !.optimizedMessages = window]))
    /\ UNCHANGED <<chatVars, tm, vl, app, sv>>

\* loadConversation while the view is shown
LoadSaved(scannerType, messages) ==
    /\ db.mounted
    /\ db.changes < MaxChanges
    /\ messages # db.messages[scannerType] \/ scannerType # db.scannerType
    /\ LET d == Changed([db EXCEPT !.messages[scannerType] = messages,
                                   !.scannerType = scannerType])
       IN  db' = IF scannerType # db.scannerType
                 THEN scannerTypeChanged(d)
                 ELSE debouncedTokenCalculation(d)
    /\ UNCHANGED <<chatVars, tm, vl, app, sv>>

\* showPresetSelectionScreen: the view is unmounted and its state dropped
UnmountChat ==
    /\ db.mounted
    /\ db.changes < MaxChanges
    /\ LET d == scannerTypeCleanup(db)
       IN  db' = [Unmounted(db.messages, db.nextId, db.changes + 1) EXCEPT
                     !.timers = d.timers,
                     !.staleWrite = db.staleWrite]
    /\ UNCHANGED <<chatVars, tm, vl, app, sv>>

\* startNewConversation from the preset selection screen
StartChat(scannerType) ==
    /\ ~db.mounted
    /\ db.changes < MaxChanges
    /\ db' = MountChat(Changed([db EXCEPT !.messages[scannerType] = <<>>]), scannerType)
    /\ UNCHANGED <<chatVars, tm, vl, app, sv>>

\* time passes, no longer than until a timeout is due
Tick ==
    /\ db.timers # {}
    /\ \A t \in db.timers : t.remaining > 0
    /\ db' = [db EXCEPT !.timers =
                 {[t EXCEPT !.remaining = Max(0, @ - DebounceMs \div TicksPerInterval)] : t \in @}]
    /\ UNCHANGED <<chatVars, tm, vl, app, sv>>

\* the callback of a timeout that is due runs
TimeoutFires(id) ==
    /\ \E t \in db.timers :
          /\ t.id = id
          /\ t.remaining = 0
          /\ LET currentMessages == IF Len(t.optimized) > 0 THEN t.optimized ELSE t.messages
                 estimatedTokens == calculateConversationTokens(currentMessages, systemPrompt, t.input)
                 usage == getTokenUsage(estimatedTokens, currentModel)
             IN  db' = [db EXCEPT !.timers = @ \ {t},
                                  !.tokenUsage = IF db.mounted THEN usage ELSE @,
                                  !.ref = NULL,
                                  !.lastBurst = db.burst,
                                  !.burst = 0,
                                  !.fires = @ + 1,
                                  !.staleWrite = \/ @
                                                 \/ ~db.mounted
                                                 \/ t.scannerType # db.scannerType]
    /\ UNCHANGED <<chatVars, tm, vl, app, sv>>

TimerIds == 1..(2 * MaxChanges + 2)

DebounceInit ==
    /\ ChatInit
    /\ apiKey = TRUE
    /\ tm = NoCall
    /\ vl = NoList
    /\ db \in {MountChat(Unmounted([q \in ScannerTypes |-> <<>>], 1, 0), p) : p \in ScannerTypes}
    /\ app = ChatShown
    /\ sv = NoSaved

DebounceNext ==
    \/ \E draft \in Drafts : EditDraft(draft)
    \/ \E text \in Fragments : CommitMessage(text)
    \/ \E reduced \in BOOLEAN : SetOptimizedMessages(reduced)
    \/ \E p \in ScannerTypes, messages \in SavedMessages : LoadSaved(p, messages)
    \/ UnmountChat
    \/ \E p \in ScannerTypes : StartChat(p)
    \/ Tick
    \/ \E id \in TimerIds : TimeoutFires(id)

DebounceSpec == DebounceInit /\ [][DebounceNext]_vars

----------------------------------------------------------------------------
(* Navigation between conversations *)

MaxNavigations == 2

\* the conversations of the sidebar
Conversations == {<<User(<<"q">>), Bot(<<"a">>)>>}

\* the state updates of a navigation: the messages of preset A, and, when a
\* mounted chat view is given another scannerType, the cleanup of its effect
Navigated(messages, switched) ==
    LET st1 == [st EXCEPT !.messages = messages]
    IN  IF switched /\ app.mounts = 1
        THEN [st1 EXCEPT !.optimizedMessages = <<>>, !.streamingMessage = <<>>]
        ELSE st1

loadConversation(scannerType, conversation) ==
    /\ ~MicrotaskPending
    /\ app.navigations < MaxNavigations
    /\ ~view.isGenerating
    /\ st' = Navigated(IF scannerType = "A" THEN conversation ELSE st.messages,
                       app.currentScannerType \notin {"", scannerType})
    /\ view' = st'
    /\ app' = [app EXCEPT !.currentScannerType = scannerType,
                          !.other = IF scannerType = "B" THEN conversation ELSE @,
                          !.navigations = @ + 1,
                          !.mounts = IF app.currentScannerType = "" THEN @ + 1 ELSE @]
    /\ noopStop' = FALSE
    /\ UNCHANGED <<sess, nsess, pendingWindow, apiKey, tm, vl, db, sv>>

\* called from the preset selection screen, where no preset is shown and
\* nothing is saved first
startNewConversation(scannerType) ==
    /\ ~MicrotaskPending
    /\ app.navigations < MaxNavigations
    /\ ~view.isGenerating
    /\ app.currentScannerType = ""
    /\ st' = Navigated(IF scannerType = "A" THEN <<>> ELSE st.messages, FALSE)
    /\ view' = st'
    /\ app' = [app EXCEPT !.currentScannerType = scannerType,
                          !.other = IF scannerType = "B" THEN <<>> ELSE @,
                          !.navigations = @ + 1,
                          !.mounts = @ + 1]
    /\ noopStop' = FALSE
    /\ UNCHANGED <<sess, nsess, pendingWindow, apiKey, tm, vl, db, sv>>

showPresetSelectionScreen ==
    /\ ~MicrotaskPending
    /\ app.navigations < MaxNavigations
    /\ ~view.isGenerating
    /\ app.currentScannerType # ""
    /\ app' = [app EXCEPT !.currentScannerType = "",
                          !.navigations = @ + 1]
    /\ view' = st
    /\ noopStop' = FALSE
    /\ UNCHANGED <<st, sess, nsess, pendingWindow, apiKey, tm, vl, db, sv>>

Navigate ==
    \/ \E p \in ScannerTypes, conversation \in Conversations : loadConversation(p, conversation)
    \/ \E p \in ScannerTypes : startNewConversation(p)
    \/ showPresetSelectionScreen

AppNext == Next \/ Navigate

\* the application as it starts: the preset selection screen, a key configured
AppInit ==
    /\ ChatInit
    /\ apiKey = TRUE
    /\ tm = NoCall
    /\ vl = NoList
    /\ db = NoDebounce
    /\ app = PresetScreen
    /\ sv = NoSaved

AppSpec == AppInit /\ [][AppNext]_vars

----------------------------------------------------------------------------
(* A caller of the estimator *)

MaxTextLen == 8
MaxMixedText == 4

Alphabet == {"a", " ", "\n", "*", "#", BACKTICK, "[", ")"}

\* a text is typed symbol by symbol; beyond MaxMixedText symbols it goes on
\* with repetitions of its last symbol
TypeSymbol(c) ==
    /\ Len(tm.draft) < MaxTextLen
    /\ Len(tm.draft) >= MaxMixedText => c = tm.draft[Len(tm.draft)]
    /\ tm' = [NoCall EXCEPT !.draft = Append(tm.draft, c)]
    /\ UNCHANGED <<chatVars, vl, db, app, sv>>

CallEstimate ==
    /\ tm.call = "none"
    /\ tm' = [NoCall EXCEPT !.draft = tm.draft,
                            !.call = "estimate",
                            !.tokens = estimateTokens(tm.draft)]
    /\ UNCHANGED <<chatVars, vl, db, app, sv>>

EstimateInit ==
    /\ ChatInit
    /\ apiKey = TRUE
    /\ tm = NoCall
    /\ vl = NoList
    /\ db = NoDebounce
    /\ app = ChatShown
    /\ sv = NoSaved

EstimateNext ==
    \/ \E c \in Alphabet : TypeSymbol(c)
    \/ CallEstimate

EstimateSpec == EstimateInit /\ [][EstimateNext]_vars

----------------------------------------------------------------------------
(* The chat view with a loaded conversation *)

\* a saved conversation of alternating short messages, one short of the cap
LongHistory ==
    [i \in 1..(MaxHistory - 1) |-> IF i % 2 = 1 THEN User(<<"q">>) ELSE Bot(<<"a">>)]

\* the chat view mounted with the messages of a loaded conversation
LoadedInit ==
    /\ st = [InitState EXCEPT !.messages = LongHistory]
    /\ view = st
    /\ sess = [s \in Sessions |-> IdleSession]
    /\ nsess = 0
    /\ pendingWindow = NoWindow
    /\ noopStop = FALSE
    /\ apiKey = TRUE
    /\ tm = NoCall
    /\ vl = NoList
    /\ db = NoDebounce
    /\ app = ChatShown
    /\ sv = NoSaved

LoadedSpec == LoadedInit /\ [][Next]_vars

----------------------------------------------------------------------------
(* Saving the conversations of one preset *)

MaxStarted == 3
MaxIdleSaves == 1
MaxStored == 9
SavedCap == 10

\* sv: the saved conversations of the preset, newest first; the messages of
\* the current conversation (currentMessages[scannerType]); whether the chat
\* is shown (currentScannerType) or the preset selection screen; the count
\* of lastSavedMessageCountRef; the clock of Date.now(); whether the
\* messages changed since the auto save last ran.  conv numbers the
\* conversations started; an entry records the conversation it was created
\* for (origin) and the conversation whose messages it holds (holds).
SavedInitial ==
    [conversations |-> <<>>, messages |-> <<>>, shown |-> FALSE,
     lastSavedMessageCount |-> 0, clock |-> 0, changed |-> FALSE,
     conv |-> 0, idleSaves |-> 0]

\* messages.find(msg => msg.sender === "user"), <<>> when there is none
RECURSIVE FirstUserMessage(_)
FirstUserMessage(messages) ==
    IF messages = <<>> THEN <<>>
    ELSE IF Head(messages).sender = "user" THEN <<Head(messages)>>
    ELSE FirstUserMessage(Tail(messages))

\* the index of the first saved conversation whose first user message has
\* the text of the first user message of messages, 0 when there is none
findExistingConversation(conversations, messages) ==
    LET firstUserMessage == FirstUserMessage(messages)
        matches == {i \in 1..Len(conversations) :
                       LET convFirstUser == FirstUserMessage(conversations[i].messages)
                       IN  /\ convFirstUser # <<>>
                           /\ convFirstUser[1].message = firstUserMessage[1].message}
    IN  IF firstUserMessage = <<>> \/ matches = {} THEN 0
        ELSE CHOOSE i \in matches : \A j \in matches : i <= j

\* a title is the base title and the number of its suffix, 1 for none
RECURSIVE ensureUniqueTitleFrom(_, _, _)
ensureUniqueTitleFrom(baseTitle, counter, existingTitles) ==
    IF [base |-> baseTitle, counter |-> counter] \in existingTitles
    THEN ensureUniqueTitleFrom(baseTitle, counter + 1, existingTitles)
    ELSE [base |-> baseTitle, counter |-> counter]

ensureUniqueTitle(baseTitle, existingTitles) ==
    ensureUniqueTitleFrom(baseTitle, 1, existingTitles)

\* conversations in the order of a stable sort, newest first, with one more
RECURSIVE InsertByTimestamp(_, _)
InsertByTimestamp(sorted, conversation) ==
    IF sorted = <<>> THEN <<conversation>>
    ELSE IF Head(sorted).timestamp >= conversation.timestamp
         THEN <<Head(sorted)>> \o InsertByTimestamp(Tail(sorted), conversation)
    ELSE <<conversation>> \o sorted

RECURSIVE sortConversationsByTimestamp(_)
sortConversationsByTimestamp(conversations) ==
    IF conversations = <<>> THEN <<>>
    ELSE InsertByTimestamp(
             sortConversationsByTimestamp(SubSeq(conversations, 1, Len(conversations) - 1)),
             conversations[Len(conversations)])

Slice(conversations, n) ==
    IF Len(conversations) > n THEN SubSeq(conversations, 1, n) ELSE conversations

\* saveConversation for the preset: S is sv before the call, baseTitle what
\* makeConversationTitle resolved to
saveConversation(S, messages, forceUpdate, baseTitle) ==
    IF Len(messages) <= 0 \/ FirstUserMessage(messages) = <<>> THEN S
    ELSE LET prevConversations == S.conversations
             now == S.clock + 1
             existingTitles == {prevConversations[i].title : i \in 1..Len(prevConversations)}
             title == ensureUniqueTitle(baseTitle, existingTitles)
             found == findExistingConversation(prevConversations, messages)
             fresh == found = 0 \/ forceUpdate
             conversation ==
                 [id |-> IF found # 0 THEN prevConversations[found].id ELSE now,
                  title |-> IF found # 0 THEN prevConversations[found].title ELSE title,
                  messages |-> messages,
                  timestamp |-> IF fresh THEN now ELSE prevConversations[found].timestamp,
                  origin |-> IF found # 0 THEN prevConversations[found].origin ELSE S.conv,
                  holds |-> S.conv]
             filteredConversations ==
                 SelectSeq(prevConversations, LAMBDA c : c.id # conversation.id)
             updated ==
                 IF fresh THEN Slice(<<conversation>> \o filteredConversations, SavedCap)
                 ELSE Slice(sortConversationsByTimestamp(
                                filteredConversations \o <<conversation>>), SavedCap)
         IN  [S EXCEPT !.conversations = updated,
                       !.lastSavedMessageCount = Len(messages),
                       !.clock = now]

BaseTitles == {"t"}

\* what the user may type as the first message of the conversation
FirstTexts == {<<"q">>, Digits(sv.conv)}

\* selectPreset on the preset selection screen: startNewConversation, which
\* saves nothing there because no preset is current
selectPreset ==
    /\ ~sv.shown
    /\ sv.conv < MaxStarted
    /\ sv' = [sv EXCEPT !.messages = <<>>,
                        !.shown = TRUE,
                        !.lastSavedMessageCount = 0,
                        !.changed = TRUE,
                        !.conv = @ + 1]
    /\ UNCHANGED <<chatVars, tm, vl, db, app>>

BackToPresets ==
    /\ sv.shown
    /\ sv' = [sv EXCEPT !.shown = FALSE]
    /\ UNCHANGED <<chatVars, tm, vl, db, app>>

\* the chat view commits the user's message
CommitUserMessage(text) ==
    /\ sv.shown
    /\ sv.messages = <<>>
    /\ text \in FirstTexts
    /\ sv' = [sv EXCEPT !.messages = Append(@, User(text)), !.changed = TRUE]
    /\ UNCHANGED <<chatVars, tm, vl, db, app>>

Replies == {<<"a">>, <<"b">>}

\* the chat view commits the reply
CommitReply(text) ==
    /\ sv.shown
    /\ sv.messages # <<>>
    /\ sv.messages[Len(sv.messages)].sender = "user"
    /\ sv' = [sv EXCEPT !.messages = Append(@, Bot(text)), !.changed = TRUE]
    /\ UNCHANGED <<chatVars, tm, vl, db, app>>

\* the timeout of debouncedAutoSave, for this preset; it is set again by
\* every change of currentMessages and of the callback's dependencies
AutoSave(baseTitle) ==
    /\ sv.changed \/ sv.idleSaves < MaxIdleSaves
    /\ LET messages == sv.messages
           hasNewContent == Len(messages) > sv.lastSavedMessageCount
           userMessages == SelectSeq(messages, LAMBDA m : m.sender = "user")
           saves == /\ messages # <<>>
                    /\ \/ messages[Len(messages)].sender = "bot"
                       \/ Len(userMessages) > 1
           S == [sv EXCEPT !.changed = FALSE,
                           !.idleSaves = IF sv.changed THEN @ ELSE @ + 1]
       IN  sv' = IF saves THEN saveConversation(S, messages, hasNewContent, baseTitle)
                 ELSE S
    /\ UNCHANGED <<chatVars, tm, vl, db, app>>

\* the conversations loadFromStorage returns at startup: none, or n that an
\* earlier visit saved, each with a first message of its own
Stored(n) ==
    [i \in 1..n |->
        [id |-> n + 1 - i,
         title |-> [base |-> "t", counter |-> n + 1 - i],
         messages |-> <<User(<<"p">> \o Digits(n + 1 - i)), Bot(<<"a">>)>>,
         timestamp |-> n + 1 - i,
         origin |-> i - (n + 1),
         holds |-> i - (n + 1)]]

SaveInit ==
    /\ ChatInit
    /\ apiKey = TRUE
    /\ tm = NoCall
    /\ vl = NoList
    /\ db = NoDebounce
    /\ app = PresetScreen
    /\ sv \in {[SavedInitial EXCEPT !.conversations = Stored(n), !.clock = n] :
                  n \in {0, MaxStored}}

SaveNext ==
    \/ selectPreset
    \/ BackToPresets
    \/ \E text \in {<<"q">>} \cup {Digits(k) : k \in 1..MaxStarted} : CommitUserMessage(text)
    \/ \E text \in Replies : CommitReply(text)
    \/ \E baseTitle \in BaseTitles : AutoSave(baseTitle)

SaveSpec == SaveInit /\ [][SaveNext]_vars

----------------------------------------------------------------------------
(* Properties *)

Streaming(s) == sess[s].pc = "streaming" /\ ~sess[s].aborted

C2_CommittedExactlyOnce ==
    \A s \in Sessions :
        /\ Len(sess[s].commits) <= 1
        /\ sess[s].outcome = "completed" => Len(sess[s].commits) = 1

\* C3: the message a cancel commits is the in-order concatenation of every
\* chunk the stream loop had appended before the cancel.
C3_NoFragmentLostOnCancel ==
    \A s \in Sessions : sess[s].cancel # "lost"

\* C5: at most one invocation of sendMessage can append fragments or commit,
\* and while it can, isTyping and the cancel handle are its own: the cleanup
\* of an earlier invocation does not reset them.
C5_OneActiveSession ==
    /\ Cardinality({s \in Sessions : Active(s) /\ ~sess[s].aborted}) <= 1
    /\ \A s \in Sessions :
          (Active(s) /\ ~sess[s].aborted) => (st.isTyping /\ st.abortController = s)

\* C6: the completion of a stream commits the live buffer as a new assistant
\* message, clears the live buffer and leaves no reduction window.
C6_CompletionDiscardsWindow ==
    [][\A s \in Sessions : StreamEnd(s) =>
        /\ st'.messages = CapHistory(Append(st.messages, Bot(sess[s].fullResponse)))
        /\ st'.streamingMessage = <<>>
        /\ st'.optimizedMessages = <<>>]_vars

\* the text the claim assigns to a thrown value
ClaimedErrorText(e) ==
    IF e.message \cap {"Invalid OpenAI API key", "API key"} # {} THEN ERR_NO_KEY
    ELSE IF "401" \in e.message THEN ERR_401
    ELSE IF e.message \cap {"quota", "billing"} # {} THEN ERR_QUOTA
    ELSE IF "rate limit" \in e.message THEN ERR_RATE
    ELSE IF e.message \cap {"context_length_exceeded", "maximum context length",
                            "token limit", "413"} # {} THEN ERR_CONTEXT
    ELSE ERR_GENERIC

\* C7: every failure that is not a cancellation, whatever the value thrown,
\* appends exactly one assistant message, with the text of the first class
\* the error matches.
C7_OneMessagePerFailure ==
    [][\A s \in Sessions, e \in Thrown : ProviderError(s, e) =>
        st'.messages = CapHistory(Append(st.messages, Bot(<<ClaimedErrorText(e)>>)))]_vars

\* C8: a submission that follows a context-length failure starts from the
\* window that failure computed, whatever the window holds.
C8_NextUsesRetainedWindow ==
    \A s \in Sessions :
        (Active(s) /\ sess[s].ctxWindow.has) => sess[s].base = sess[s].ctxWindow.w

C10_UnchangedOptimizeTruncates ==
    \A s \in Sessions :
        (/\ sess[s].pc = "creating"
         /\ sess[s].reduction = "optimize"
         /\ Len(sess[s].base) + 1 <= KeepRecentCount)
        => sess[s].messagesToUse =
               DropLast(truncateConversation(
                   Append(sess[s].base, User(sess[s].cleanInput)),
                   systemPrompt, currentModel, TargetPercent))

\* C4: under LiveSpec every invocation of sendMessage that has started returns;
\* when it returns isTyping is false and the cancel handle is null, they stay
\* so while no invocation is running, and the view that blocks new
\* submissions (isTyping as rendered) is eventually lifted.
C4_EveryPathTerminates ==
    /\ \A s \in Sessions : Active(s) ~> (sess[s].pc = "done")
    /\ [][\A s \in Sessions : (sess[s].pc # "done" /\ sess'[s].pc = "done")
              => (~st'.isTyping /\ st'.abortController = NULL)]_vars
    /\ []((\A s \in Sessions : ~Active(s)) => (~st.isTyping /\ st.abortController = NULL))
    /\ view.isTyping ~> ~view.isTyping

\* a submission whose client creation threw has returned and a later
\* submission has been accepted
C4_Witness ==
    /\ ~apiKey
    /\ nsess = 2
    /\ \A s \in Sessions : sess[s].pc = "done" /\ sess[s].outcome = "failed"
    /\ ~st.isTyping

----------------------------------------------------------------------------
(* Properties of the token manager, under TokenSpec *)

\* estimate(text)+6 summed over the last n messages of H
RECURSIVE SuffixCost(_, _)
SuffixCost(H, n) ==
    IF n = 0 THEN 0
    ELSE estimateTokens(H[Len(H) - n + 1].message) + 6 + SuffixCost(H, n - 1)

\* the last n messages of H, added to estimate(systemPrompt)+10+1000, stay
\* within limit*targetFraction
SuffixFits(H, n, model) ==
    100 * (estimateTokens(systemPrompt) + 10 + 1000 + SuffixCost(H, n))
        <= LimitOf(model) * TargetPercent

\* C11: truncateConversation returns a nonempty result for a nonempty
\* history, and when the most recent message alone does not fit under
\* limit*targetFraction the result is that message alone.
C11_TruncateNeverEmpty ==
    (tm.call = "truncate" /\ tm.messages # <<>>) =>
        /\ tm.result # <<>>
        /\ ~SuffixFits(tm.messages, 1, tm.model) =>
               tm.result = <<tm.messages[Len(tm.messages)]>>

\* the number of messages a walk from the newest message keeps when it stops
\* at the first message that would overflow
FirstOverflow(H, model) ==
    CHOOSE n \in 0..Len(H) :
        /\ \A j \in 1..n : SuffixFits(H, j, model)
        /\ n < Len(H) => ~SuffixFits(H, n + 1, model)

\* C12: truncateConversation returns the suffix of the history, in order,
\* that a walk from the newest message keeps when it stops at the first
\* message that would overflow limit*targetFraction; and it returns the
\* history itself when calculateConversationTokens of the history without a
\* draft is at most limit*targetFraction.
C12_TruncateIsFirstOverflowSuffix ==
    tm.call = "truncate" =>
        LET H == tm.messages
            n == FirstOverflow(H, tm.model)
        IN  /\ tm.result = SubSeq(H, Len(H) - n + 1, Len(H))
            /\ 100 * calculateConversationTokens(H, systemPrompt, <<>>)
                    <= LimitOf(tm.model) * TargetPercent
                => tm.result = H

\* a truncation stopped at a message that overflows although the message
\* before it would have fitted with what was kept
C12_Witness ==
    /\ tm.call = "truncate"
    /\ Len(tm.messages) = 3
    /\ Len(tm.result) = 1
    /\ 100 * (estimateTokens(systemPrompt) + 10 + 1000 + SuffixCost(tm.messages, 1)
              + estimateTokens(tm.messages[1].message) + 6)
           <= LimitOf(tm.model) * TargetPercent

\* what the returned messages cost with the fixed overhead of the call
TruncatedTotal ==
    estimateTokens(tm.systemPrompt) + 10 + 1000 + SuffixCost(tm.result, Len(tm.result))

TruncateTarget == (LimitOf(tm.model) * tm.targetPercent) \div 100

\* the result is a suffix of the history and the message just before it, if
\* any, would push the total over the target
TruncateIsMaximalSuffix ==
    LET H == tm.messages
        n == Len(tm.result)
    IN  /\ n <= Len(H)
        /\ tm.result = SubSeq(H, Len(H) - n + 1, Len(H))
        /\ n < Len(H) =>
               TruncatedTotal + estimateTokens(H[Len(H) - n].message) + 6 > TruncateTarget

\* C28 (as claimed): for every history, system prompt, model and target
\* fraction, the messages truncateConversation returns, with
\* estimate(systemPrompt)+10+1000, cost at most floor(limit*targetFraction),
\* and the result is the maximal such suffix.
C28_TruncateWithinTarget ==
    tm.call = "truncateWith" =>
        /\ TruncatedTotal <= TruncateTarget
        /\ TruncateIsMaximalSuffix

\* C28 (amended): the same, provided estimate(systemPrompt)+10+1000 alone is
\* within floor(limit*targetFraction); when it is not, nothing is returned.
C28_TruncateWithinTargetWhenOverheadFits ==
    tm.call = "truncateWith" =>
        /\ estimateTokens(tm.systemPrompt) + 10 + 1000 <= TruncateTarget
               => TruncatedTotal <= TruncateTarget
        /\ estimateTokens(tm.systemPrompt) + 10 + 1000 > TruncateTarget
               => tm.result = <<>>
        /\ TruncateIsMaximalSuffix

\* a truncation to half the limit that kept some messages and dropped others
C28_Witness ==
    /\ tm.call = "truncateWith"
    /\ tm.targetPercent = 50
    /\ tm.result # <<>>
    /\ Len(tm.result) < Len(tm.messages)
    /\ TruncatedTotal <= TruncateTarget

\* C13: optimizeConversation with keepRecentCount = k returns a history of at
\* most k messages unchanged; a longer one whose older head (all but the last
\* k messages) has at most 2 messages as its last k messages; and any other
\* as one assistant placeholder that reports the size of the older head
\* followed by the last k messages, k+1 messages in all.
C13_OptimizeShape ==
    tm.call = "optimize" =>
        LET H == tm.messages
            k == tm.keepRecentCount
            n == Len(H)
            recent == SubSeq(H, n - k + 1, n)
        IN  IF n <= k THEN tm.result = H
            ELSE IF n - k <= 2 THEN tm.result = recent
            ELSE /\ Len(tm.result) = k + 1
                 /\ SubSeq(tm.result, 2, k + 1) = recent
                 /\ tm.result[1].sender = "bot"
                 /\ tm.result[1].message =
                        <<"*", "[", SUMMARY_PRE>> \o Digits(n - k) \o <<SUMMARY_POST, "]", "*">>

\* the default keepRecentCount applied to a history with three older messages
C13_Witness ==
    /\ tm.call = "optimize"
    /\ tm.keepRecentCount = KeepRecentCount
    /\ Len(tm.messages) = KeepRecentCount + 3
    /\ Len(tm.result) = KeepRecentCount + 1

\* C14: a reducer leaves a history that already fits as it is: when
\* calculateConversationTokens of the history without a draft is at most
\* limit*targetFraction, truncateConversation returns the history, and so
\* does optimizeConversation (called as the chat view calls it, with the
\* default keepRecentCount), whatever the number of messages.
C14_ReducerNoOpWhenFits ==
    (/\ tm.call \in {"truncate", "optimize"}
     /\ tm.call = "optimize" => tm.keepRecentCount = KeepRecentCount
     /\ 100 * calculateConversationTokens(tm.messages, systemPrompt, <<>>)
            <= LimitOf(tm.model) * TargetPercent)
    => tm.result = tm.messages

\* C15: shouldOptimizeConversation is true exactly when the usage snapshot of
\* the history, the system prompt and no draft has level danger or a
\* percentage above 0.85; at a percentage of exactly 0.85 it is false.
C15_TriggerAbove85 ==
    tm.call = "shouldOptimize" =>
        LET snapshot == getTokenUsage(
                calculateConversationTokens(tm.messages, systemPrompt, <<>>), tm.model)
        IN  /\ tm.flag <=> (\/ snapshot.level = "danger"
                            \/ 100 * snapshot.estimated > 85 * snapshot.limit)
            /\ 100 * snapshot.estimated = 85 * snapshot.limit => ~tm.flag

\* a history whose cost is exactly 85% of the limit was tested
C15_Witness ==
    /\ tm.call = "shouldOptimize"
    /\ ~tm.flag
    /\ 100 * calculateConversationTokens(tm.messages, systemPrompt, <<>>)
          = 85 * LimitOf(tm.model)

\* the level of the half-open interval that estimated/limit lies in
IntervalLevel(estimated, limit) ==
    CASE 10 * estimated < 6 * limit -> "safe"
      [] 6 * limit <= 10 * estimated /\ 10 * estimated < 8 * limit -> "info"
      [] 8 * limit <= 10 * estimated /\ 10 * estimated < 9 * limit -> "warning"
      [] 9 * limit <= 10 * estimated -> "danger"

\* C16: getTokenUsage gives the level of the half-open interval its
\* percentage lies in: safe below 0.6, info from 0.6 to below 0.8, warning
\* from 0.8 to below 0.9, danger from 0.9; a percentage on a boundary has the
\* higher level and the estimate one token below it the lower one.
C16_LevelIntervals ==
    tm.call = "getTokenUsage" =>
        /\ tm.usage.estimated = tm.tokens
        /\ tm.usage.limit = LimitOf(tm.model)
        /\ tm.usage.level = IntervalLevel(tm.tokens, LimitOf(tm.model))

\* an estimate of exactly 80% of the limit was given the level warning
C16_Witness ==
    /\ tm.call = "getTokenUsage"
    /\ 10 * tm.tokens = 8 * LimitOf(tm.model)
    /\ tm.usage.level = "warning"

\* C17: calculateConversationTokens returns estimate(system)+6, plus
\* estimate(message)+6 for every message, plus 10, plus estimate(draft)+6
\* when there is a draft, plus the 1000 tokens of completion headroom; and
\* appending a message to the history never lowers it.
C17_CostFormula ==
    /\ [](tm.call = "calculate" =>
            tm.tokens = estimateTokens(systemPrompt) + 6
                        + SuffixCost(tm.messages, Len(tm.messages))
                        + 10
                        + (IF tm.draft # <<>> THEN estimateTokens(tm.draft) + 6 ELSE 0)
                        + 1000)
    /\ [][\A text \in MessageTexts : AppendMessage(text) =>
            \A draft \in Drafts :
                calculateConversationTokens(tm'.messages, systemPrompt, draft)
                    >= calculateConversationTokens(tm.messages, systemPrompt, draft)]_vars

\* two one-letter messages and a one-letter draft under the default system
\* prompt: (8+6) + (1+6) + (1+6) + 10 + (1+6) + 1000
C17_Witness ==
    /\ tm.call = "calculate"
    /\ tm.messages = <<User(<<"q">>), Bot(<<"q">>)>>
    /\ tm.draft = <<"q">>
    /\ tm.tokens = 1045

----------------------------------------------------------------------------
(* Properties of the message list, under ListSpec *)

\* C18: when the component is given the messages of another conversation the
\* height cache is emptied: the cache holds only heights measured under the
\* list that is shown, and no computation of the window or of the totals
\* reads a height that was measured under another list.
C18_SwitchDiscardsHeightCache ==
    vl.mounted =>
        /\ \A i \in DOMAIN vl.heightCache : vl.heightCache[i].list = vl.list
        /\ ~vl.usedStale

\* the items of a list of n items of height h each that intersect the
\* viewport from scrollTop to scrollTop + containerHeight
Intersecting(n, h, scrollTop, containerHeight) ==
    {i \in 0..(n - 1) : i * h < scrollTop + containerHeight /\ (i + 1) * h > scrollTop}

\* C19: for the list of 200 items of one height, at every scroll position
\* from 0 to the total height less the container height, the rendered
\* indices are the range from startIndex to endIndex, within 0..199; the
\* range holds every item that intersects the viewport and reaches the
\* overscan count beyond the first and the last of them (or the end of the
\* list).
C19_WindowCoversViewport ==
    (/\ vl.mounted
     /\ vl.list = "A"
     /\ vl.switches = 0
     /\ vl.scrollTop <= Length("A") * EstimatedItemHeight - vl.containerHeight)
    => LET n == Length("A")
           range == vl.visibleRange
           visible == Intersecting(n, EstimatedItemHeight, vl.scrollTop, vl.containerHeight)
           first == CHOOSE i \in visible : \A j \in visible : i <= j
           last == CHOOSE i \in visible : \A j \in visible : i >= j
       IN  /\ 0 <= range.start /\ range.start <= range.end /\ range.end <= n - 1
           /\ RenderedItems(n, range) = range.start..range.end
           /\ visible \subseteq range.start..range.end
           /\ range.start <= Max(0, first - vl.overscan)
           /\ range.end >= Min(n - 1, last + vl.overscan)

\* C20: while the list is windowed, totalHeight is the sum of the cached or
\* estimated heights of all items and offsetY the sum of those of the items
\* before visibleRange.start, for the height cache as it is now, also after
\* a measurement that no scroll event followed.
C20_TotalsFollowCache ==
    (vl.mounted /\ shouldVirtualize(Length(vl.list))) =>
        /\ vl.totalHeight = SumHeights(vl.heightCache, 0, Length(vl.list))
        /\ vl.offsetY = SumHeights(vl.heightCache, 0, vl.visibleRange.start)

\* the items that intersect the viewport when every item is as high as the
\* cache, or the estimate, says
IntersectingCached(cache, n, scrollTop, containerHeight) ==
    {i \in 0..(n - 1) :
        /\ SumHeights(cache, 0, i) < scrollTop + containerHeight
        /\ SumHeights(cache, 0, i + 1) > scrollTop}

\* the window as it was computed from the height cache and the scroll offset
\* of this state
WindowHoldsViewport ==
    LET n == Length(vl.list)
        range == vl.visibleRange
    IN  /\ 0 <= range.start /\ range.start <= range.end /\ range.end <= n - 1
        /\ IntersectingCached(vl.heightCache, n, vl.scrollTop, vl.containerHeight)
               \subseteq range.start..range.end

\* C29: whenever the window of a windowed list is computed, whatever heights
\* were measured into the cache, 0 <= startIndex <= endIndex <= length-1 and
\* every item that intersects the viewport from scrollTop to
\* scrollTop + containerHeight is within startIndex..endIndex; also for a
\* scroll offset beyond the total height and for overscan items higher than
\* the estimate.
C29_WindowHoldsIntersectingItems ==
    [][(/\ vl.mounted
        /\ vl'.rangeDeps # vl.rangeDeps
        /\ shouldVirtualize(Length(vl'.list))) => WindowHoldsViewport']_vars

----------------------------------------------------------------------------
(* Properties of the debounced token calculation, under DebounceSpec *)

\* the usage of the history the view would send (the reduced history when
\* there is one) with the draft, as they are now
LatestUsage ==
    LET history == IF db.optimizedMessages # <<>> THEN db.optimizedMessages
                   ELSE db.messages[db.scannerType]
    IN  getTokenUsage(calculateConversationTokens(history, systemPrompt, db.input), currentModel)

----------------------------------------------------------------------------
(* Properties of the sessions under navigation, under AppSpec *)

\* C22: a step that leaves a session streaming (anything but its completion,
\* its cancellation or its failure) does not change the committed history.
C22_HistoryFrozenWhileStreaming ==
    [][\A s \in Sessions :
          (Streaming(s) /\ sess'[s].pc = "streaming" /\ ~sess'[s].aborted)
          => st'.messages = st.messages]_vars

\* a session between its submission and its completion, cancellation or failure
InProgress(s) == Active(s) /\ ~sess[s].aborted

\* C25: while a session is in progress, loadConversation, startNewConversation
\* and showPresetSelectionScreen change neither the preset that is shown nor
\* the messages of any preset.
C25_NavigationBlockedWhileInProgress ==
    [][(Navigate /\ \E s \in Sessions : InProgress(s))
       => /\ app'.currentScannerType = app.currentScannerType
          /\ app'.other = app.other
          /\ st'.messages = st.messages]_vars

----------------------------------------------------------------------------
(* Properties of the estimator, under EstimateSpec *)

\* the length of the text with the whitespace at its ends removed and every
\* other whitespace run counted as one character
ClaimedNormalizedLength(t) ==
    LET inner(i) == /\ IsWs(t[i])
                    /\ i > 1 /\ ~IsWs(t[i - 1])
                    /\ \E j \in (i + 1)..Len(t) : ~IsWs(t[j])
    IN  Cardinality({i \in 1..Len(t) : ~IsWs(t[i])})
        + Cardinality({i \in 1..Len(t) : inner(i)})

MarkdownCharacters(t) ==
    Cardinality({i \in 1..Len(t) : t[i] \in {BACKTICK, "*", "#", "[", "]", "(", ")"}})

Newlines(t) == Len(SelectSeq(t, LAMBDA c : c = "\n"))

RECURSIVE RunLength(_, _)
RunLength(t, i) == IF i < Len(t) /\ t[i + 1] = t[i] THEN 1 + RunLength(t, i + 1) ELSE 1

\* the markers in a run of n equal characters: backticks count by threes and
\* then singly, asterisks by pairs and then singly, hashes by sixes
RunMarkers(c, n) ==
    CASE c = BACKTICK -> (n \div 3) + (n % 3)
      [] c = "*" -> (n \div 2) + (n % 2)
      [] c = "#" -> CeilDiv(n, 6)
      [] c \in {"[", "]", "(", ")"} -> n
      [] OTHER -> 0

RECURSIVE MarkdownMarkers(_, _)
MarkdownMarkers(t, i) ==
    IF i > Len(t) THEN 0
    ELSE RunMarkers(t[i], RunLength(t, i)) + MarkdownMarkers(t, i + RunLength(t, i))

\* C23: the estimate of a text is its base, ceil(normalized length / 4), plus
\* ceil(0.5 * the number of its markdown characters) plus ceil(0.2 * the
\* number of its newlines), and is at least the base.
C23_EstimateCountsCharacters ==
    tm.call = "estimate" =>
        LET base == CeilDiv(ClaimedNormalizedLength(tm.draft), 4)
        IN  /\ tm.tokens >= base
            /\ tm.tokens = base + CeilDiv(MarkdownCharacters(tm.draft), 2)
                                + CeilDiv(Newlines(tm.draft), 5)

\* C23, amended: the second term is ceil(0.5 * the number of markdown
\* markers), a marker being a triple backtick, a backtick, a double asterisk,
\* an asterisk, a run of up to six hashes, a bracket or a parenthesis.
C23_EstimateCountsMarkers ==
    tm.call = "estimate" =>
        LET base == CeilDiv(ClaimedNormalizedLength(tm.draft), 4)
        IN  /\ tm.tokens >= base
            /\ base >= 0
            /\ tm.tokens = base + CeilDiv(MarkdownMarkers(tm.draft, 1), 2)
                                + CeilDiv(Newlines(tm.draft), 5)

\* the estimate of a newline and a code fence: one for the three characters
\* left by the normalization, one for the fence, one for the newline
C23_Witness ==
    /\ tm.call = "estimate"
    /\ tm.draft = <<"\n", BACKTICK, BACKTICK, BACKTICK>>
    /\ tm.tokens = 1 + 1 + 1

----------------------------------------------------------------------------
(* Properties of the sessions on a loaded conversation, under LoadedSpec *)

IsPrefix(a, b) == Len(a) <= Len(b) /\ SubSeq(b, 1, Len(a)) = a

\* C24: every step leaves the committed history it found as a prefix of the
\* committed history it leaves.
C24_HistoryAppendOnly ==
    [][IsPrefix(st.messages, st'.messages)]_vars

\* C24, amended: every step appends at most two messages to the committed
\* history and drops messages only from its front and only through the cap,
\* which leaves exactly MaxHistory messages; the messages it keeps stay in
\* order, and a reduced history is never written over the committed one.
C24_HistoryAppendOnlyUpToCap ==
    [][\E appended \in 0..2 :
          LET dropped == Len(st.messages) + appended - Len(st'.messages)
          IN  /\ dropped \in 0..Len(st.messages)
              /\ dropped > 0 => Len(st'.messages) = MaxHistory
              /\ \A i \in 1..(Len(st.messages) - dropped) :
                    st'.messages[i] = st.messages[i + dropped]]_vars

\* a submission and its reply were committed to a loaded conversation of 99
\* messages, and the cap dropped the oldest message
C24_Witness ==
    /\ Len(st.messages) = MaxHistory
    /\ st.messages[1] = LongHistory[2]
    /\ st.messages[MaxHistory] = Bot(<<"a", "b">>)
    /\ \E s \in Sessions : sess[s].outcome = "completed"

Suffixes(h) == {SubSeq(h, k + 1, Len(h)) : k \in 0..Len(h)}

\* the history of a payload against the committed history at submission
PayloadFrom(committed, history, reduced) ==
    /\ \/ history \in Suffixes(committed)
       \/ /\ history # <<>>
          /\ Head(history) \in {SummaryMessage(n) : n \in 1..(MaxHistory + 1)}
          /\ Tail(history) \in Suffixes(committed)
    /\ (~reduced /\ committed # <<>>) =>
          (history # <<>> /\ history[Len(history)] = committed[Len(committed)])

\* C26: when a request is opened, the history of its payload is a contiguous
\* suffix of the history committed before the submission, optionally preceded
\* by one summary message, and, when no reduction removed it, it ends with
\* the last message committed before the submission.
C26_PayloadIsSuffixOfHistory ==
    [][/\ \A text \in Inputs :
             (Send(text) /\ sess'[nsess'].pc = "creating")
             => PayloadFrom(st.messages, sess'[nsess'].messagesToUse, FALSE)
       /\ \A s \in Sessions, throws \in BOOLEAN :
             (OptimizeReturn(s, throws) /\ sess'[s].pc = "creating")
             => PayloadFrom(DropLast(st.messages), sess'[s].messagesToUse, TRUE)]_vars

\* C27: whenever the reduction step ran and the new user message alone is
\* under the trigger, the payload that is sent is under the trigger too.
C27_ReductionBringsUnderBudget ==
    \A s \in Sessions :
        (/\ sess[s].pc = "creating"
         /\ sess[s].reduction # "none"
         /\ ~shouldOptimizeConversation(<<User(sess[s].cleanInput)>>, systemPrompt, currentModel))
        => ~shouldOptimizeConversation(Append(sess[s].messagesToUse, User(sess[s].cleanInput)),
                                       systemPrompt, currentModel)

----------------------------------------------------------------------------
(* Properties of the saved conversations, under SaveSpec *)

\* C30: after any sequence of new conversations, commits and saves for one
\* preset, the saved list holds at most 10 conversations, and saving a
\* conversation that was started fresh never replaces another saved
\* conversation: every entry holds messages of the conversation it was
\* created for, also when two conversations begin with the same first user
\* message.
C30_SaveKeepsEarlierConversations ==
    /\ Len(sv.conversations) <= SavedCap
    /\ \A i \in 1..Len(sv.conversations) :
          sv.conversations[i].holds = sv.conversations[i].origin

====
